---- MODULE Spec2Model ----
(***************************************************************************)
(* Model of ai_pr_review (src/build/lib/ai_pr_review.py): the create and   *)
(* review flows against the pull-request service, the AI provider router,  *)
(* the diff collector, ref normalization and the repository-id resolver.   *)
(*                                                                         *)
(* Texts are sequences of symbols.  A symbol is one character ("x", " ",   *)
(* "\n", "/") or an indivisible run of characters written out in full      *)
(* ("refs", "origin", "AI Suggested Description").                         *)
(***************************************************************************)
EXTENDS Integers, Sequences, FiniteSets, TLC

\* ---------------------------------------------------------------- bounds
\* longest free tail of a branch name, in symbols
MaxBranchTail == 3
\* longest raw `git diff` output, in pieces (a piece: one character or the marker text)
MaxDiffPieces == 4
\* longest raw `git diff --name-only` output, in characters
MaxNameChars == 5
\* longest model name, in symbols
MaxModelTokens == 2
\* number of runs of the tool against the same pull request
MaxRuns == 2
\* longest free tail of a remote URL, in symbols
MaxUrlTail == 4

\* ------------------------------------------------------ program constants
\* MAX_DIFF_CHARS (120000 in the source), scaled to just above the marker's length
MAX_DIFF_CHARS == 20
\* MAX_FILES (100 in the source), scaled
MAX_FILES == 2

VARIABLES
    prDescription,   \* the description the pull-request service stores
    patchesApplied,  \* description PATCH requests the service has applied
    runs,            \* runs started so far
    pc,              \* per run: position in handle_create / handle_review
    args,            \* per run: the argparse namespace
    ai,              \* per run: the adapter ai_chat selects, and whether it has its credential
    diff,            \* per run: the diff text collect_diff returned
    result,          \* per run: the review text (None when absent)
    pr_id,           \* per run: the pull request id handle_review settled on
    current,         \* per run: the description read by get_pr
    new_desc,        \* per run: the description handle_review builds
    description,     \* per run: the description handle_create builds
    out,             \* per run: the messages printed
    exit,            \* per run: the status the handler returned, <<>> while it has returned none
    escaped,         \* per run: the call whose exception left the handler uncaught
    sent,            \* per run: the requests sent to the pull-request service
    printed,         \* per run: the requests printed in preview mode
    aiCalls,         \* per run: calls of ai_chat
    fnPc, fnIn, fnOut \* the pure functions: position, input, output

flowVars == <<prDescription, patchesApplied, runs, pc, args, ai, diff, result, pr_id, current,
              new_desc, description, out, exit, escaped, sent, printed, aiCalls>>
fnVars == <<fnPc, fnIn, fnOut>>
vars == <<flowVars, fnVars>>

\* ------------------------------------------------------------ text helpers
SeqsUpTo(A, n) == UNION {[1..k -> A] : k \in 0..n}

Whitespace == {" ", "\n"}

RECURSIVE lstrip(_)
lstrip(s) == IF s # <<>> /\ Head(s) \in Whitespace THEN lstrip(Tail(s)) ELSE s

RECURSIVE rstrip(_)
rstrip(s) ==
    IF s # <<>> /\ s[Len(s)] \in Whitespace THEN rstrip(SubSeq(s, 1, Len(s) - 1)) ELSE s

\* str.strip()
strip(s) == rstrip(lstrip(s))

\* str.startswith(pre)
startswith(s, pre) == Len(s) >= Len(pre) /\ SubSeq(s, 1, Len(pre)) = pre

\* str.endswith(suf)
endswith(s, suf) == Len(s) >= Len(suf) /\ SubSeq(s, Len(s) - Len(suf) + 1, Len(s)) = suf

\* the places where sub occurs in s
occurrences(s, sub) ==
    {i \in 1..(Len(s) - Len(sub) + 1) : SubSeq(s, i, i + Len(sub) - 1) = sub}

\* sub in s
contains(s, sub) == occurrences(s, sub) # {}

\* s[:n]
prefix(s, n) == SubSeq(s, 1, IF n < Len(s) THEN n ELSE Len(s))

\* the places of the "/" symbols of s, in order
RECURSIVE slashes(_, _)
slashes(s, i) ==
    IF i > Len(s) THEN <<>>
    ELSE IF s[i] = "/" THEN <<i>> \o slashes(s, i + 1) ELSE slashes(s, i + 1)

\* s.split("/", n)[n], for an s with at least n "/"
afterSlash(s, n) == SubSeq(s, slashes(s, 1)[n] + 1, Len(s))

RECURSIVE concat(_)
concat(ss) == IF ss = <<>> THEN <<>> ELSE Head(ss) \o concat(Tail(ss))

\* ------------------------------------------------------- ref normalization
RefsHeads == <<"refs", "/", "heads", "/">>
RefsRemotes == <<"refs", "/", "remotes", "/">>
Remotes == <<"remotes", "/">>
Origin == <<"origin", "/">>

normalize_branch_for_ref(branch) ==
    LET value == strip(branch)
        nslash == Len(slashes(value, 1))
    IN  IF startswith(value, RefsHeads) THEN value
        ELSE IF startswith(value, RefsRemotes) /\ nslash >= 3 THEN afterSlash(value, 3)
        ELSE IF startswith(value, Remotes) /\ nslash >= 2 THEN afterSlash(value, 2)
        ELSE IF startswith(value, Origin) THEN afterSlash(value, 1)
        ELSE value

\* a to_ref that prefixes without looking at what normalization returned
to_ref_always_prefix(branch) == RefsHeads \o normalize_branch_for_ref(branch)

to_ref(branch) ==
    LET normalized == normalize_branch_for_ref(branch)
    IN  IF startswith(normalized, RefsHeads) THEN normalized ELSE RefsHeads \o normalized

\* to_ref of src/ai_pr_review.py, which does not normalize
to_ref_plain(branch) ==
    IF startswith(branch, RefsHeads) THEN branch ELSE RefsHeads \o branch

\* str.replace("refs/heads/", "")
RECURSIVE dropRefsHeads(_)
dropRefsHeads(s) ==
    IF s = <<>> THEN <<>>
    ELSE IF startswith(s, RefsHeads) THEN dropRefsHeads(SubSeq(s, Len(RefsHeads) + 1, Len(s)))
    ELSE <<Head(s)>> \o dropRefsHeads(Tail(s))

default_title(source_branch, target_branch) ==
    dropRefsHeads(normalize_branch_for_ref(source_branch)) \o <<" into ">>
        \o dropRefsHeads(normalize_branch_for_ref(target_branch))

\* ------------------------------------------------------------ collect_diff
\* what run(["git", "diff", ...]) met: the command's output, or an exception
GitOutcomes(texts) ==
    {[raised |-> TRUE, stdout |-> <<>>]} \cup {[raised |-> FALSE, stdout |-> t] : t \in texts}

\* run(cmd): subprocess.check_output(...).strip()
run(stdout) == strip(stdout)

\* "\n\n[diff truncated]", character by character
DiffTruncated ==
    <<"\n", "\n", "[", "d", "i", "f", "f", " ", "t", "r", "u", "n", "c", "a", "t", "e", "d", "]">>

\* "\n[files list truncated]"
FilesTruncated == <<"\n", "[files list truncated]">>

\* str.splitlines()
RECURSIVE splitlines(_)
splitlines(s) ==
    IF s = <<>> THEN <<>>
    ELSE LET nls == {i \in 1..Len(s) : s[i] = "\n"}
         IN  IF nls = {} THEN <<s>>
             ELSE LET nl == CHOOSE i \in nls : \A j \in nls : i <= j
                  IN  <<SubSeq(s, 1, nl - 1)>> \o splitlines(SubSeq(s, nl + 1, Len(s)))

\* "\n".join(lines)
RECURSIVE join(_)
join(lines) ==
    IF lines = <<>> THEN <<>>
    ELSE IF Len(lines) = 1 THEN lines[1]
    ELSE lines[1] \o <<"\n">> \o join(Tail(lines))

\* the diff text of collect_diff with the truncation left out
truncate_diff_unmarked(text) == prefix(text, MAX_DIFF_CHARS)

\* lines 69-70: the diff text, cut at MAX_DIFF_CHARS with the marker appended
truncate_diff(text) ==
    IF Len(text) > MAX_DIFF_CHARS THEN prefix(text, MAX_DIFF_CHARS) \o DiffTruncated ELSE text

\* the file list of collect_diff cut at MAX_FILES lines with nothing appended
truncate_files_unmarked(names) == join(prefix(splitlines(names), MAX_FILES))

\* lines 72-74: the file list, cut at MAX_FILES lines with the marker line appended
truncate_files(names) ==
    LET lines == splitlines(names)
        files == join(prefix(lines, MAX_FILES))
    IN  IF Len(lines) > MAX_FILES THEN files \o FilesTruncated ELSE files

\* collect_diff, given what the two git commands met
collect_diff(namesRun, diffRun) ==
    LET names == IF namesRun.raised THEN <<>> ELSE run(namesRun.stdout)
        difftext == IF diffRun.raised THEN <<>> ELSE run(diffRun.stdout)
    IN  [files |-> truncate_files(names), diff |-> truncate_diff(difftext)]

\* ------------------------------------------------------------------ ai_chat
\* str.lower(), on the symbols of provider and model names
lower(c) ==
    CASE c = "Claude" -> "claude"
      [] c = "CLAUDE" -> "claude"
      [] c = "Anthropic" -> "anthropic"
      [] c = "OpenAI" -> "openai"
      [] c = "GPT" -> "gpt"
      [] OTHER -> c

lowerAll(s) == [i \in 1..Len(s) |-> lower(s[i])]

\* a router that lets a model name of the first-party family win over the override
ai_chat_provider_model_first(AI_PROVIDER, model) ==
    IF contains(lowerAll(model), <<"claude">>) THEN "claude"
    ELSE IF lower(AI_PROVIDER) = "" THEN "openai" ELSE lower(AI_PROVIDER)

\* lines 212-220: the provider name ai_chat settles on
ai_chat_provider(AI_PROVIDER, model) ==
    LET provider == lower(AI_PROVIDER)
    IN  IF provider = "" THEN
            IF startswith(model, <<"claude">>) \/ contains(lowerAll(model), <<"claude">>)
            THEN "claude"
            ELSE IF \/ startswith(model, <<"gpt">>)
                    \/ startswith(model, <<"o1">>)
                    \/ startswith(model, <<"nvidia/">>)
            THEN "openai"
            ELSE "openai"
        ELSE provider

\* lines 224-230: the adapters ai_chat calls for a provider name, in order
ai_chat_adapters(provider) ==
    IF provider = "claude" \/ provider = "anthropic" THEN <<"claude_chat">>
    ELSE IF provider = "openai" \/ provider = "chatgpt" \/ provider = "nvidia"
    THEN <<"openai_chat">>
    ELSE <<>>

\* ------------------------------------------------- the state before any run
Procs == {1, 2}

\* None and "" are both falsy, and the handlers only test truthiness
None == <<>>

NoArgs == [command |-> "none"]
NoAi == [adapters |-> <<>>, credential |-> FALSE]

RunsIdle ==
    /\ patchesApplied = 0
    /\ runs = 0
    /\ pc = [p \in Procs |-> "idle"]
    /\ args = [p \in Procs |-> NoArgs]
    /\ ai = [p \in Procs |-> NoAi]
    /\ diff = [p \in Procs |-> <<>>]
    /\ result = [p \in Procs |-> None]
    /\ pr_id = [p \in Procs |-> <<>>]
    /\ current = [p \in Procs |-> <<>>]
    /\ new_desc = [p \in Procs |-> <<>>]
    /\ description = [p \in Procs |-> <<>>]
    /\ out = [p \in Procs |-> {}]
    /\ exit = [p \in Procs |-> <<>>]
    /\ escaped = [p \in Procs |-> "nothing"]
    /\ sent = [p \in Procs |-> <<>>]
    /\ printed = [p \in Procs |-> <<>>]
    /\ aiCalls = [p \in Procs |-> 0]

FlowIdle == prDescription = <<>> /\ RunsIdle

\* ----------------------------------------------------- repository identity
GitMarker == <<"/", "_git", "/">>
DotGit == <<".git">>

\* str.strip("/")
RECURSIVE stripSlashes(_)
stripSlashes(s) ==
    IF s # <<>> /\ Head(s) = "/" THEN stripSlashes(Tail(s))
    ELSE IF s # <<>> /\ s[Len(s)] = "/" THEN stripSlashes(SubSeq(s, 1, Len(s) - 1))
    ELSE s

\* str.rstrip("/")
RECURSIVE rstripSlashes(_)
rstripSlashes(s) ==
    IF s # <<>> /\ s[Len(s)] = "/" THEN rstripSlashes(SubSeq(s, 1, Len(s) - 1)) ELSE s

\* urllib.parse.unquote, on the symbols of a URL
unquote(s) ==
    [i \in 1..Len(s) |-> CASE s[i] = "%20" -> " " [] s[i] = "%2F" -> "/" [] OTHER -> s[i]]

\* a removesuffix that leaves the suffix on
removesuffix_never(s, suf) == s

\* str.removesuffix(".git")
removesuffix(s, suf) == IF endswith(s, suf) THEN SubSeq(s, 1, Len(s) - Len(suf)) ELSE s

\* s.rsplit(sep, 1)[-1], for a one-symbol sep
afterLast(s, sep) ==
    LET at == {i \in 1..Len(s) : s[i] = sep}
    IN  IF at = {} THEN s
        ELSE SubSeq(s, (CHOOSE i \in at : \A j \in at : j <= i) + 1, Len(s))

\* re.search(r"ssh\.dev\.azure\.com[:/]+v3/[^/]+/[^/]+/([^/]+)$", s)
sshV3Match(s) ==
    \E i \in 1..Len(s) : \E j \in (i + 1)..Len(s) :
        /\ s[i] = "ssh.dev.azure.com"
        /\ \A k \in (i + 1)..j : s[k] \in {":", "/"}
        /\ j + 2 <= Len(s)
        /\ s[j + 1] = "v3"
        /\ s[j + 2] = "/"
        /\ LET rest == SubSeq(s, j + 3, Len(s))
               sl == slashes(rest, 1)
           IN  /\ Len(sl) = 2
               /\ sl[1] > 1
               /\ sl[2] > sl[1] + 1
               /\ sl[2] < Len(rest)

\* lines 399-416; the test '"/" not in repo' of line 414 always holds after rsplit
extract_repo_id_from_remote(remote_url) ==
    IF remote_url = <<>> THEN <<>>
    ELSE
        LET normalized == strip(remote_url)
        IN  IF contains(normalized, GitMarker) THEN
                LET at == occurrences(normalized, GitMarker)
                    lastAt == CHOOSE i \in at : \A j \in at : j <= i
                IN  unquote(stripSlashes(
                        SubSeq(normalized, lastAt + Len(GitMarker), Len(normalized))))
            ELSE IF sshV3Match(normalized) THEN
                unquote(removesuffix(afterLast(normalized, "/"), DotGit))
            ELSE
                LET path == rstripSlashes(
                        [i \in 1..Len(normalized) |->
                            IF normalized[i] = "\\" THEN "/" ELSE normalized[i]])
                    repo == afterLast(path, "/")
                    hasColon == \E i \in 1..Len(repo) : repo[i] = ":"
                    hasAt == \E i \in 1..Len(path) : path[i] = "@"
                IN  unquote(removesuffix(
                        IF hasColon /\ hasAt THEN afterLast(repo, ":") ELSE repo, DotGit))

\* --------------------------------------------------- pull-request requests
Empty == <<>>
Marker == <<"AI Suggested Description">>
ApiVersion == <<"?api-version=7.1-preview.1">>

\* lines 241-251: the request post_pr_comment sends
post_pr_comment(org_url, project, repo_id, id, token, content) ==
    [op |-> "post_pr_comment",
     method |-> "POST",
     url |-> org_url \o project \o <<"/_apis/git/repositories/">> \o repo_id
                 \o <<"/pullRequests/">> \o id \o <<"/threads">> \o ApiVersion,
     data |-> [comments |-> <<[parentCommentId |-> 0, content |-> content, commentType |-> 1]>>,
               status |-> 1],
     token |-> token]

\* lines 259-269: the request update_pr_description sends
update_pr_description(org_url, project, repo_id, id, token, descr) ==
    [op |-> "update_pr_description",
     method |-> "PATCH",
     url |-> org_url \o project \o <<"/_apis/git/repositories/">> \o repo_id
                 \o <<"/pullRequests/">> \o id \o ApiVersion,
     data |-> [description |-> descr],
     token |-> token]

\* lines 272-289: the request create_pr sends
create_pr(org_url, project, repo_id, source_branch, target_branch, token, title, descr) ==
    [op |-> "create_pr",
     method |-> "POST",
     url |-> org_url \o <<"/">> \o project \o <<"/_apis/git/repositories/">> \o repo_id
                 \o <<"/pullrequests">> \o ApiVersion,
     data |-> [sourceRefName |-> to_ref(source_branch),
               targetRefName |-> to_ref(target_branch),
               title |-> title,
               description |-> descr],
     token |-> token]

\* lines 292-301: the request get_pr sends
get_pr(org_url, project, repo_id, id, token) ==
    [op |-> "get_pr",
     method |-> "GET",
     url |-> org_url \o project \o <<"/_apis/git/repositories/">> \o repo_id
                 \o <<"/pullRequests/">> \o id \o ApiVersion,
     data |-> [nothing |-> TRUE],
     token |-> token]

\* what a preview prints of a request: its URL and payload
Shown(op, url, data) == [op |-> op, url |-> url, data |-> data]
ShownOf(request) == Shown(request.op, request.url, request.data)

\* lines 452-461: the create-PR URL and payload handle_create prints in a dry run
preview_create_pr(a, title, descr) ==
    Shown("create_pr",
          a.org_url \o <<"/">> \o a.project \o <<"/_apis/git/repositories/">> \o a.repo_id
              \o <<"/pullrequests">> \o ApiVersion,
          [sourceRefName |-> to_ref(a.source_branch),
           targetRefName |-> to_ref(a.target_branch),
           title |-> title,
           description |-> descr])

ReviewHeading == <<"## AI Code Review", "\n", "\n">>

\* lines 510-519: the comment URL and payload handle_review prints in a dry run
preview_post_pr_comment(a, pr, text) ==
    Shown("post_pr_comment",
          a.org_url \o a.project \o <<"/_apis/git/repositories/">> \o a.repo_id
              \o <<"/pullRequests/">> \o pr \o <<"/threads">> \o ApiVersion,
          [comments |-> <<[parentCommentId |-> 0, content |-> ReviewHeading \o text,
                           commentType |-> 1]>>,
           status |-> 1])

\* lines 524-530: the description URL and payload handle_review prints in a dry run;
\* "\\n" is the two characters backslash and n of the printed placeholder
preview_update_pr_description(a, pr) ==
    Shown("update_pr_description",
          a.org_url \o a.project \o <<"/_apis/git/repositories/">> \o a.repo_id
              \o <<"/pullRequests/">> \o pr \o ApiVersion,
          [description |-> <<"[existing description]", "\\n", "\\n", "---", "\\n",
                             "AI Suggested Description", "\\n", "\\n", "[generated]">>])

\* a description built without the marker
new_description_unmarked(cur, generated) ==
    strip(cur \o <<"\n", "\n", "---", "\n">> \o <<"\n", "\n">> \o generated)

\* line 555: the description handle_review builds
new_description(cur, generated) ==
    strip(cur \o <<"\n", "\n", "---", "\n">> \o Marker \o <<"\n", "\n">> \o generated)

\* a context test that forgets the token
require_ado_context_no_token(a) ==
    a.org_url # Empty /\ a.project # Empty /\ a.repo_id # Empty

\* a context test that forgets the repository id
require_ado_context_no_repo_id(a) ==
    a.org_url # Empty /\ a.project # Empty /\ a.token # Empty

\* line 370: require_ado_context
require_ado_context(a) ==
    a.org_url # Empty /\ a.project # Empty /\ a.repo_id # Empty /\ a.token # Empty

\* line 450: the title handle_create uses
create_title(a) ==
    IF strip(a.title) # Empty THEN strip(a.title)
    ELSE default_title(a.source_branch, a.target_branch)

\* ------------------------------------------------------------ AI adapters
\* what the backend's network call meets
NetOutcomes == {"reply", "failure"}
ReviewReply == <<"R">>
DescriptionReply == <<"D">>

Returned(text) == [raised |-> FALSE, text |-> text]
Raised == [raised |-> TRUE, text |-> None]

\* lines 157-173: no package or no key gives None; client.messages.create is
\* called outside any try, so its exception leaves claude_chat
claude_chat(credential, net, reply) ==
    IF ~credential THEN Returned(None)
    ELSE IF net = "failure" THEN Raised
    ELSE Returned(reply)

\* an adapter that reads its key in a way that raises when the key is not set
openai_chat_key_required(credential, net, reply) ==
    IF ~credential THEN Raised
    ELSE IF net = "failure" THEN Returned(None)
    ELSE Returned(strip(reply))

\* lines 176-208: no key gives None; urlopen is called inside try/except
openai_chat(credential, net, reply) ==
    IF ~credential THEN Returned(None)
    ELSE IF net = "failure" THEN Returned(None)
    ELSE Returned(strip(reply))

\* lines 224-230, for the adapters ai_chat_adapters selected
ai_chat(cfg, net, reply) ==
    IF cfg.adapters = <<>> THEN Returned(None)
    ELSE IF cfg.adapters[1] = "claude_chat" THEN claude_chat(cfg.credential, net, reply)
    ELSE openai_chat(cfg.credential, net, reply)

\* the configurations of the router a run can start with
AiConfigs ==
    {[adapters |-> ai_chat_adapters(ai_chat_provider(o, m)),
      credential |-> c /\ ai_chat_adapters(ai_chat_provider(o, m)) # <<>>] :
        o \in {"", "claude", "openai", "azure"},
        m \in {<<"claude", "-">>, <<"gpt", "-">>},
        c \in BOOLEAN}

\* ------------------------------------------------------------- the handlers
\* what an HTTP request to the pull-request service meets: the service applies
\* it or not, and http_json returns or raises (a response that is no JSON raises
\* after the service applied the request)
HttpOutcomes ==
    {[applied |-> TRUE, raised |-> FALSE], [applied |-> FALSE, raised |-> TRUE],
     [applied |-> TRUE, raised |-> TRUE]}

OrgUrls == {Empty, <<"https://dev.azure.com/org/">>}
Projects == {Empty, <<"proj">>}
RepoIds == {Empty, <<"repo">>}
Tokens == {Empty, <<"tok">>}
PrIds == {Empty, <<"7">>}
SourceBranches == {<<"feature">>, Origin \o <<"feature">>}
TargetBranches == {<<"main">>}
RemoteUrls == {Empty, <<"https://dev.azure.com/org/proj", "/", "_git", "/", "repo">>}
FlowDiffs == {Empty, <<" ">>, <<"x">>}
FlowNames == {<<"a">>}
Descriptions == {Empty, <<"x", "\n">> \o Marker \o <<"\n", "old">>}

CreateArgs ==
    [command : {"create"}, source_branch : SourceBranches, target_branch : TargetBranches,
     title : {Empty, <<"T">>}, push : BOOLEAN, dry_run : BOOLEAN,
     org_url : OrgUrls, project : Projects, repo_id : RepoIds, token : Tokens]

ReviewArgs ==
    [command : {"review"}, source_branch : {<<"feature">>}, target_branch : TargetBranches,
     pr_id : PrIds, update_description : BOOLEAN, dry_run : BOOLEAN,
     org_url : OrgUrls, project : Projects, repo_id : RepoIds, token : Tokens]

\* line 551: marker in current
has_marker_never(cur) == FALSE
has_marker(cur) == contains(cur, Marker)

\* lines 451 and 507: if args.dry_run
previews_never(a) == FALSE
previews(a) == a.dry_run

Upd(f, p, v) == [f EXCEPT ![p] = v]
Say(p, msgs) == out' = [out EXCEPT ![p] = @ \cup msgs]
Return(p, status) == exit' = Upd(exit, p, <<status>>) /\ pc' = Upd(pc, p, "done")
Send(p, request, outcome) ==
    sent' = [sent EXCEPT ![p] = Append(@, [request |-> request, outcome |-> outcome])]

\* the run leaves the handler by an exception nothing catches
Escape(p, call) ==
    /\ escaped' = Upd(escaped, p, call)
    /\ exit' = Upd(exit, p, <<>>)
    /\ pc' = Upd(pc, p, "done")

\* parse_args and main: a run starts with its namespace
Start(p, a, cfg, first) ==
    /\ pc[p] = "idle"
    /\ runs < MaxRuns
    /\ runs' = runs + 1
    /\ args' = Upd(args, p, a)
    /\ ai' = Upd(ai, p, cfg)
    /\ pc' = Upd(pc, p, first)
    /\ UNCHANGED <<prDescription, patchesApplied, diff, result, pr_id, current, new_desc,
                   description, out, exit, escaped, sent, printed, aiCalls, fnVars>>

\* line 577, sys.exit(main()): the process ends and nothing of the run is kept
Exit(p) ==
    /\ pc[p] = "done"
    /\ pc' = Upd(pc, p, "idle")
    /\ args' = Upd(args, p, NoArgs)
    /\ ai' = Upd(ai, p, NoAi)
    /\ diff' = Upd(diff, p, Empty)
    /\ result' = Upd(result, p, None)
    /\ pr_id' = Upd(pr_id, p, Empty)
    /\ current' = Upd(current, p, Empty)
    /\ new_desc' = Upd(new_desc, p, Empty)
    /\ description' = Upd(description, p, Empty)
    /\ out' = Upd(out, p, {})
    /\ exit' = Upd(exit, p, <<>>)
    /\ escaped' = Upd(escaped, p, "nothing")
    /\ sent' = Upd(sent, p, <<>>)
    /\ printed' = Upd(printed, p, <<>>)
    /\ aiCalls' = Upd(aiCalls, p, 0)
    /\ UNCHANGED <<prDescription, patchesApplied, runs, fnVars>>

StartCreate(p) == \E a \in CreateArgs, cfg \in AiConfigs : Start(p, a, cfg, "create_prepare")

StartReview(p) == \E a \in ReviewArgs, cfg \in AiConfigs : Start(p, a, cfg, "review_collect_diff")

\* handle_create, lines 431-439: infer the repository id, push the branch.
\* The remote URL is read only when no repository id was given, and git push
\* runs only with --push; its failure is an exception of run() nothing catches.
CreatePrepare(p) ==
    /\ pc[p] = "create_prepare"
    /\ \E remote_url \in RemoteUrls, pushed \in BOOLEAN :
        LET inferred == extract_repo_id_from_remote(remote_url)
            infers == args[p].repo_id = Empty /\ inferred # Empty
        IN  /\ args' = IF infers THEN [args EXCEPT ![p].repo_id = inferred] ELSE args
            /\ (args[p].repo_id # Empty => remote_url = Empty)
            /\ (~args[p].push => pushed)
            /\ IF args[p].push /\ ~pushed
               THEN /\ Escape(p, "run")
                    /\ Say(p, {"Pushing"} \cup IF infers THEN {"Inferred repo-id"} ELSE {})
               ELSE /\ pc' = Upd(pc, p, "create_collect_diff")
                    /\ Say(p, (IF args[p].push THEN {"Pushing"} ELSE {})
                                \cup IF infers THEN {"Inferred repo-id"} ELSE {})
                    /\ UNCHANGED <<exit, escaped>>
    /\ UNCHANGED <<prDescription, patchesApplied, runs, ai, diff, result, current, new_desc,
                   description, pr_id, sent, printed, aiCalls, fnVars>>

\* handle_create, lines 441-444: collect the diff; no diff gives the fallback
CreateCollectDiff(p) ==
    /\ pc[p] = "create_collect_diff"
    /\ \E names \in GitOutcomes(FlowNames), d \in GitOutcomes(FlowDiffs) :
        LET bundle == collect_diff(names, d)
        IN  /\ diff' = Upd(diff, p, bundle.diff)
            /\ IF strip(bundle.diff) = Empty
               THEN /\ description' = Upd(description, p,
                            <<"Summary", "\n", "- No diff detected between selected branches.">>)
                    /\ Say(p, {"No diff found. Creating PR with fallback description."})
                    /\ pc' = Upd(pc, p, "create_dispatch")
               ELSE /\ pc' = Upd(pc, p, "create_describe")
                    /\ UNCHANGED <<description, out>>
    /\ UNCHANGED <<prDescription, patchesApplied, runs, args, ai, result, current, new_desc,
                   pr_id, exit, escaped, sent, printed, aiCalls, fnVars>>

\* handle_create, lines 446-448: the AI description, or the generation-failed fallback
CreateDescribe(p) ==
    /\ pc[p] = "create_describe"
    /\ aiCalls' = Upd(aiCalls, p, aiCalls[p] + 1)
    /\ \E net \in NetOutcomes :
        LET r == ai_chat(ai[p], net, DescriptionReply)
        IN  IF r.raised
            THEN Escape(p, "ai_chat") /\ UNCHANGED description
            ELSE /\ description' = Upd(description, p,
                        IF r.text # None THEN r.text
                        ELSE <<"Summary", "\n", "- AI description generation failed.">>)
                 /\ pc' = Upd(pc, p, "create_dispatch")
                 /\ UNCHANGED <<exit, escaped>>
    /\ UNCHANGED <<prDescription, patchesApplied, runs, args, ai, diff, result, current,
                   new_desc, pr_id, out, sent, printed, fnVars>>

\* handle_create, lines 450-473: preview, or stop for want of context
CreateDispatch(p) ==
    /\ pc[p] = "create_dispatch"
    /\ IF previews(args[p])
       THEN /\ printed' = [printed EXCEPT ![p] =
                    Append(@, preview_create_pr(args[p], create_title(args[p]), description[p]))]
            /\ Say(p, {"Dry run enabled; skipping PR creation.", "Generated PR description:"})
            /\ Return(p, 0)
       ELSE IF ~require_ado_context(args[p])
       THEN /\ Say(p, {"Missing Azure DevOps context.", "Generated PR description:"})
            /\ Return(p, 1)
            /\ UNCHANGED printed
       ELSE /\ pc' = Upd(pc, p, "create_pr")
            /\ UNCHANGED <<printed, out, exit>>
    /\ UNCHANGED <<prDescription, patchesApplied, runs, args, ai, diff, result, current,
                   new_desc, description, pr_id, escaped, sent, aiCalls, fnVars>>

\* handle_create, lines 475-490: create_pr is called outside any try
CreatePr(p) ==
    /\ pc[p] = "create_pr"
    /\ \E outcome \in HttpOutcomes :
        /\ Send(p, create_pr(args[p].org_url, args[p].project, args[p].repo_id,
                             args[p].source_branch, args[p].target_branch, args[p].token,
                             create_title(args[p]), description[p]), outcome)
        /\ IF outcome.raised
           THEN Escape(p, "create_pr") /\ UNCHANGED out
           ELSE Say(p, {"Created PR"}) /\ Return(p, 0) /\ UNCHANGED escaped
    /\ UNCHANGED <<prDescription, patchesApplied, runs, args, ai, diff, result, current,
                   new_desc, description, pr_id, printed, aiCalls, fnVars>>

\* handle_review, lines 494-497
ReviewCollectDiff(p) ==
    /\ pc[p] = "review_collect_diff"
    /\ \E names \in GitOutcomes(FlowNames), d \in GitOutcomes(FlowDiffs) :
        LET bundle == collect_diff(names, d)
        IN  /\ diff' = Upd(diff, p, bundle.diff)
            /\ IF strip(bundle.diff) = Empty
               THEN Say(p, {"No diff found; skipping."}) /\ Return(p, 0)
               ELSE pc' = Upd(pc, p, "review_ai") /\ UNCHANGED <<out, exit>>
    /\ UNCHANGED <<prDescription, patchesApplied, runs, args, ai, result, current, new_desc,
                   description, pr_id, escaped, sent, printed, aiCalls, fnVars>>

\* handle_review, lines 499-504: ai_review is called outside any try
ReviewAi(p) ==
    /\ pc[p] = "review_ai"
    /\ aiCalls' = Upd(aiCalls, p, aiCalls[p] + 1)
    /\ \E net \in NetOutcomes :
        LET r == ai_chat(ai[p], net, ReviewReply)
        IN  IF r.raised
            THEN Escape(p, "ai_chat") /\ UNCHANGED <<result, out>>
            ELSE IF r.text = None
            THEN Return(p, 1) /\ UNCHANGED <<result, out, escaped>>
            ELSE /\ result' = Upd(result, p, r.text)
                 /\ Say(p, {"Generated review content:"})
                 /\ pc' = Upd(pc, p, "review_dispatch")
                 /\ UNCHANGED <<exit, escaped>>
    /\ UNCHANGED <<prDescription, patchesApplied, runs, args, ai, diff, current, new_desc,
                   description, pr_id, sent, printed, fnVars>>

\* handle_review, lines 506-537: preview, or stop for want of context
ReviewDispatch(p) ==
    /\ pc[p] = "review_dispatch"
    /\ \E SYSTEM_PULLREQUEST_PULLREQUESTID \in PrIds :
        LET pr == IF args[p].pr_id # Empty THEN args[p].pr_id
                  ELSE SYSTEM_PULLREQUEST_PULLREQUESTID
        IN  /\ pr_id' = Upd(pr_id, p, pr)
            /\ IF previews(args[p])
               THEN /\ printed' = [printed EXCEPT ![p] =
                            IF pr = Empty THEN @
                            ELSE Append(@, preview_post_pr_comment(args[p], pr, result[p]))
                                 \o IF args[p].update_description
                                    THEN <<preview_update_pr_description(args[p], pr)>>
                                    ELSE <<>>]
                    /\ Say(p, {"Dry run enabled; skipping PR comment/update calls."}
                                \cup IF pr = Empty
                                     THEN {"No PR ID available; only review content was generated."}
                                     ELSE {})
                    /\ Return(p, 0)
               ELSE IF ~(pr # Empty /\ require_ado_context(args[p]))
               THEN /\ Say(p, {"Missing Azure DevOps context or token; printing output only."}
                                \cup IF pr # Empty THEN {"Missing Azure DevOps context."} ELSE {})
                    /\ Return(p, 0)
                    /\ UNCHANGED printed
               ELSE /\ pc' = Upd(pc, p, "post_pr_comment")
                    /\ UNCHANGED <<printed, out, exit>>
    /\ UNCHANGED <<prDescription, patchesApplied, runs, args, ai, diff, result, current,
                   new_desc, description, escaped, sent, aiCalls, fnVars>>

\* handle_review, lines 539-546: the comment post, inside try/except
PostComment(p) ==
    /\ pc[p] = "post_pr_comment"
    /\ \E outcome \in HttpOutcomes :
        /\ Send(p, post_pr_comment(args[p].org_url, args[p].project, args[p].repo_id,
                                   pr_id[p], args[p].token, ReviewHeading \o result[p]),
                outcome)
        /\ Say(p, IF outcome.raised THEN {"Failed to post PR comment:"}
                  ELSE {"Posted PR comment."})
    /\ IF args[p].update_description
       THEN pc' = Upd(pc, p, "get_pr") /\ UNCHANGED exit
       ELSE Return(p, 0)
    /\ UNCHANGED <<prDescription, patchesApplied, runs, args, ai, diff, result, current,
                   new_desc, description, pr_id, escaped, printed, aiCalls, fnVars>>

\* handle_review, lines 547-553 and 558-559: read the description, skip when it
\* holds the marker
GetPr(p) ==
    /\ pc[p] = "get_pr"
    /\ \E raised \in BOOLEAN :
        /\ Send(p, get_pr(args[p].org_url, args[p].project, args[p].repo_id, pr_id[p],
                          args[p].token),
                [applied |-> ~raised, raised |-> raised])
        /\ IF raised
           THEN /\ Say(p, {"Failed to update PR description:"})
                /\ Return(p, 0)
                /\ UNCHANGED current
           ELSE /\ current' = Upd(current, p, prDescription)
                /\ IF has_marker(prDescription)
                   THEN /\ Say(p, {"PR description already contains AI section; skipping update."})
                        /\ Return(p, 0)
                   ELSE /\ pc' = Upd(pc, p, "review_describe")
                        /\ UNCHANGED <<out, exit>>
    /\ UNCHANGED <<prDescription, patchesApplied, runs, args, ai, diff, result, new_desc,
                   description, pr_id, escaped, printed, aiCalls, fnVars>>

\* handle_review, lines 554-555 and 558-559: the AI description, or the review
\* text; an exception of ai_pr_description is caught by the except of line 558
ReviewDescribe(p) ==
    /\ pc[p] = "review_describe"
    /\ aiCalls' = Upd(aiCalls, p, aiCalls[p] + 1)
    /\ \E net \in NetOutcomes :
        LET r == ai_chat(ai[p], net, DescriptionReply)
            generated == IF r.text # None THEN r.text ELSE result[p]
        IN  IF r.raised
            THEN /\ Say(p, {"Failed to update PR description:"})
                 /\ Return(p, 0)
                 /\ UNCHANGED new_desc
            ELSE /\ new_desc' = Upd(new_desc, p, new_description(current[p], generated))
                 /\ pc' = Upd(pc, p, "update_pr_description")
                 /\ UNCHANGED <<out, exit>>
    /\ UNCHANGED <<prDescription, patchesApplied, runs, args, ai, diff, result, current,
                   description, pr_id, escaped, sent, printed, fnVars>>

\* handle_review, lines 556-561: the PATCH, inside try/except
PatchDescription(p) ==
    /\ pc[p] = "update_pr_description"
    /\ \E outcome \in HttpOutcomes :
        /\ Send(p, update_pr_description(args[p].org_url, args[p].project, args[p].repo_id,
                                         pr_id[p], args[p].token, new_desc[p]), outcome)
        /\ IF outcome.applied
           THEN /\ prDescription' = new_desc[p]
                /\ patchesApplied' = patchesApplied + 1
           ELSE UNCHANGED <<prDescription, patchesApplied>>
        /\ Say(p, IF outcome.raised THEN {"Failed to update PR description:"}
                  ELSE {"Updated PR description."})
    /\ Return(p, 0)
    /\ UNCHANGED <<runs, args, ai, diff, result, current, new_desc, description, pr_id,
                   escaped, printed, aiCalls, fnVars>>

Step(p) ==
    \/ StartCreate(p)
    \/ StartReview(p)
    \/ CreatePrepare(p)
    \/ CreateCollectDiff(p)
    \/ CreateDescribe(p)
    \/ CreateDispatch(p)
    \/ CreatePr(p)
    \/ ReviewCollectDiff(p)
    \/ ReviewAi(p)
    \/ ReviewDispatch(p)
    \/ PostComment(p)
    \/ GetPr(p)
    \/ ReviewDescribe(p)
    \/ PatchDescription(p)
    \/ Exit(p)

\* before the first run: the PR has its description, no process runs
Init ==
    /\ prDescription \in Descriptions
    /\ RunsIdle
    /\ fnPc = "idle"
    /\ fnIn = <<>>
    /\ fnOut = <<>>

\* runs that do not overlap: one run at a time, each started after the last ended
Next == Step(1)
Spec == Init /\ [][Next]_vars

\* ------------------------------------- review runs that overlap on one PR
\* the namespaces of review runs that go as far as the description update
UpdatingReviewArgs ==
    {a \in ReviewArgs :
        a.update_description /\ ~a.dry_run /\ a.pr_id # Empty /\ require_ado_context(a)}

StartUpdatingReview(p) ==
    \E a \in UpdatingReviewArgs, cfg \in AiConfigs : Start(p, a, cfg, "review_collect_diff")

\* handle_review in one process
ReviewStep(p) ==
    \/ StartUpdatingReview(p)
    \/ ReviewCollectDiff(p)
    \/ ReviewAi(p)
    \/ ReviewDispatch(p)
    \/ PostComment(p)
    \/ GetPr(p)
    \/ ReviewDescribe(p)
    \/ PatchDescription(p)
    \/ Exit(p)

\* two processes, each step of one taken between any two steps of the other
NextConcurrent == \E p \in Procs : ReviewStep(p)
SpecConcurrent == Init /\ [][NextConcurrent]_vars

\* ------------------------------------------ to_ref applied, and applied again
BranchSymbols == {"refs", "heads", "origin", "/", " ", "x"}
BranchPrefixes ==
    {<<>>, RefsHeads, RefsRemotes, RefsRemotes \o Origin, Remotes \o Origin, Origin}
BranchInputs ==
    {lead \o pre \o tail :
        lead \in {<<>>, <<" ">>}, pre \in BranchPrefixes,
        tail \in SeqsUpTo(BranchSymbols, MaxBranchTail)}

last(s, x) == IF s = <<>> THEN x ELSE s[Len(s)]

InitRef ==
    /\ FlowIdle
    /\ fnPc = "to_ref"
    /\ fnIn \in BranchInputs
    /\ fnOut = [to_ref |-> <<>>, to_ref_plain |-> <<>>]

\* to_ref of the input, then to_ref of that
ApplyToRef ==
    /\ fnPc = "to_ref"
    /\ Len(fnOut.to_ref) < 2
    /\ fnOut' = [fnOut EXCEPT !.to_ref = Append(@, to_ref(last(@, fnIn)))]
    /\ UNCHANGED <<flowVars, fnPc, fnIn>>

ApplyToRefPlain ==
    /\ fnPc = "to_ref"
    /\ Len(fnOut.to_ref_plain) < 2
    /\ fnOut' = [fnOut EXCEPT !.to_ref_plain = Append(@, to_ref_plain(last(@, fnIn)))]
    /\ UNCHANGED <<flowVars, fnPc, fnIn>>

NextRef == ApplyToRef \/ ApplyToRefPlain
SpecRef == InitRef /\ [][NextRef]_vars

\* ------------------------------------------------------ collect_diff applied
DiffPieces == {<<"x">>, <<"\n">>, DiffTruncated}
DiffOutputs == {concat(ps) : ps \in SeqsUpTo(DiffPieces, MaxDiffPieces)}
NameOutputs == SeqsUpTo({"a", "\n", "[files list truncated]"}, MaxNameChars)

InitDiff ==
    /\ FlowIdle
    /\ fnPc = "collect_diff"
    /\ fnIn \in [names : GitOutcomes(NameOutputs), diff : GitOutcomes(DiffOutputs)]
    /\ fnOut = [files |-> <<>>, diff |-> <<>>]

CollectDiff ==
    /\ fnPc = "collect_diff"
    /\ fnOut' = collect_diff(fnIn.names, fnIn.diff)
    /\ fnPc' = "collected"
    /\ UNCHANGED <<flowVars, fnIn>>

NextDiff == CollectDiff
SpecDiff == InitDiff /\ [][NextDiff]_vars

\* ----------------------------------------------------------- ai_chat applied
ProviderNames ==
    {"", "claude", "Claude", "anthropic", "openai", "OpenAI", "chatgpt", "nvidia", "azure", " "}
ModelSymbols == {"claude", "Claude", "CLAUDE", "gpt", "o1", "nvidia/", "-"}
ModelNames == SeqsUpTo(ModelSymbols, MaxModelTokens)

InitChat ==
    /\ FlowIdle
    /\ fnPc = "ai_chat"
    /\ fnIn \in [AI_PROVIDER : ProviderNames, model : ModelNames]
    /\ fnOut = [provider |-> "", invoked |-> <<>>]

\* one call of ai_chat: the provider it prints, and the adapters it calls
AiChat ==
    /\ fnPc = "ai_chat"
    /\ LET provider == ai_chat_provider(fnIn.AI_PROVIDER, fnIn.model)
       IN  fnOut' = [provider |-> provider, invoked |-> ai_chat_adapters(provider)]
    /\ fnPc' = "returned"
    /\ UNCHANGED <<flowVars, fnIn>>

NextChat == AiChat
SpecChat == InitChat /\ [][NextChat]_vars

\* ------------------------------------- extract_repo_id_from_remote applied
UrlSymbols == {"/", "_git", ".git", "r", "%20", ":", "\\"}
UrlHeads ==
    {<<>>,
     <<"https", ":", "/", "/", "host", "/">>,
     <<"git", "@", "ssh.dev.azure.com", ":", "v3", "/", "r", "/", "r", "/">>,
     <<"git", "@", "host", ":">>}
UrlInputs ==
    {lead \o head \o tail :
        lead \in {<<>>, <<" ">>}, head \in UrlHeads, tail \in SeqsUpTo(UrlSymbols, MaxUrlTail)}

InitRepo ==
    /\ FlowIdle
    /\ fnPc = "extract_repo_id_from_remote"
    /\ fnIn \in UrlInputs
    /\ fnOut = <<>>

\* one call of extract_repo_id_from_remote
ExtractRepoId ==
    /\ fnPc = "extract_repo_id_from_remote"
    /\ fnOut' = extract_repo_id_from_remote(fnIn)
    /\ fnPc' = "resolved"
    /\ UNCHANGED <<flowVars, fnIn>>

NextRepo == ExtractRepoId
SpecRepo == InitRepo /\ [][NextRepo]_vars

\* ------------------------------------------------------------------- claims
\* the requests of one kind a run has sent
SentOf(p, op) == {i \in 1..Len(sent[p]) : sent[p][i].request.op = op}
SkipMessage == "PR description already contains AI section; skipping update."

\* C1: a review run that reads a description holding the marker sends no PATCH,
\* makes no AI call after the review call, prints the skip message and ends
\* with status 0.
C1_MarkerSkipsUpdate ==
    \A p \in Procs :
        contains(current[p], Marker) =>
            /\ pc[p] = "done"
            /\ exit[p] = <<0>>
            /\ SentOf(p, "update_pr_description") = {}
            /\ aiCalls[p] = 1
            /\ SkipMessage \in out[p]

\* a run posted its comment, read a description holding the marker, and ended
C1_Witness ==
    \E p \in Procs :
        /\ pc[p] = "done"
        /\ args[p].command = "review"
        /\ args[p].update_description
        /\ SentOf(p, "get_pr") # {}
        /\ contains(current[p], Marker)

\* C2: over runs that do not overlap, the service applies at most one description
\* PATCH; once it has, the stored description holds the marker and no later run
\* gets past the read to generate or send another.
C2_AtMostOnePatch ==
    /\ patchesApplied <= 1
    /\ patchesApplied = 1 =>
        /\ contains(prDescription, Marker)
        /\ \A p \in Procs : pc[p] \notin {"review_describe", "update_pr_description"}

\* a PATCH was applied by the first run, and the second run read the
\* description and skipped
C2_Witness ==
    /\ patchesApplied = 1
    /\ runs = 2
    /\ \E p \in Procs :
        /\ pc[p] = "done"
        /\ SentOf(p, "get_pr") # {}
        /\ SentOf(p, "update_pr_description") = {}
        /\ SkipMessage \in out[p]

\* C3: in a review run with the description update on and no preview, a failed
\* comment post does not abort the run: the description is read afterwards,
\* the PATCH is sent when the read succeeds and shows no marker, and the run
\* ends with status 0.
C3_FailedPostDoesNotAbort ==
    \A p \in Procs :
        (/\ pc[p] = "done"
         /\ args[p].command = "review"
         /\ args[p].update_description
         /\ \E i \in SentOf(p, "post_pr_comment") : sent[p][i].outcome.raised)
        => /\ exit[p] = <<0>>
           /\ SentOf(p, "get_pr") # {}
           /\ (\E i \in SentOf(p, "get_pr") :
                   ~sent[p][i].outcome.raised /\ ~contains(current[p], Marker))
              => SentOf(p, "update_pr_description") # {}

\* C4: a transport failure in either adapter comes back from ai_chat as an
\* absent result; no run ends by an exception leaving ai_chat.
C4_AdapterFailureNeverPropagates == \A p \in Procs : escaped[p] # "ai_chat"

\* C5: a failed request to the pull-request service (create PR, post comment,
\* read PR, patch description) is caught in the flow, which ends with an exit
\* status; no exception leaves handle_create or handle_review.
C5_ServiceFailuresCaught ==
    \A p \in Procs :
        (pc[p] = "done" /\ \E i \in 1..Len(sent[p]) : sent[p][i].outcome.raised)
        => escaped[p] = "nothing" /\ exit[p] \in {<<0>>, <<1>>}

\* C6: a preview run, of either flow, sends no request to the pull-request
\* service, whatever diff collection and AI generation give.
C6_PreviewSendsNothing ==
    \A p \in Procs :
        (args[p].command \in {"create", "review"} /\ args[p].dry_run)
        => /\ sent[p] = <<>>
           /\ pc[p] \notin {"create_pr", "post_pr_comment", "get_pr", "update_pr_description"}

\* a review preview printed its comment and description requests and ended
\* having sent nothing
C6_Witness ==
    \E p \in Procs :
        /\ pc[p] = "done"
        /\ args[p].command = "review"
        /\ args[p].dry_run
        /\ Len(printed[p]) = 2
        /\ require_ado_context(args[p])
        /\ sent[p] = <<>>

\* C7: the URL and payload a preview prints for a request are the URL and
\* payload the run without preview sends with the same inputs, for create PR,
\* post comment and patch description.
C7_PreviewIsTheRealRequest ==
    \A p \in Procs : \A i \in 1..Len(printed[p]) :
        LET a == args[p]
            shown == printed[p][i]
        IN  /\ shown.op = "create_pr" =>
                shown = ShownOf(create_pr(a.org_url, a.project, a.repo_id, a.source_branch,
                                          a.target_branch, a.token, create_title(a),
                                          description[p]))
            /\ shown.op = "post_pr_comment" =>
                shown = ShownOf(post_pr_comment(a.org_url, a.project, a.repo_id, pr_id[p],
                                                a.token, ReviewHeading \o result[p]))
            /\ shown.op = "update_pr_description" =>
                \E generated \in {DescriptionReply, result[p]} :
                    shown = ShownOf(update_pr_description(
                                a.org_url, a.project, a.repo_id, pr_id[p], a.token,
                                new_description(prDescription, generated)))

\* C8: to_ref is total and idempotent: to_ref(x) begins with "refs/heads/" and
\* to_ref(to_ref(x)) = to_ref(x), for every branch string x (short, fully
\* qualified, remote-alias-prefixed, remote-tracking, with or without
\* surrounding whitespace); the same for the to_ref of src/ai_pr_review.py.
C8_RefNormalizationIdempotent ==
    \A f \in {"to_ref", "to_ref_plain"} :
        /\ \A i \in 1..Len(fnOut[f]) : startswith(fnOut[f][i], RefsHeads)
        /\ Len(fnOut[f]) = 2 => fnOut[f][2] = fnOut[f][1]

\* to_ref was applied twice to a remote-tracking ref in surrounding whitespace,
\* and the first application rewrote it
C8_Witness ==
    /\ fnPc = "to_ref"
    /\ Len(fnOut.to_ref) = 2
    /\ startswith(fnIn, <<" ">>)
    /\ startswith(strip(fnIn), RefsRemotes \o Origin)
    /\ fnOut.to_ref[1] = RefsHeads \o <<"x">>

\* C10 as stated: a diff longer than MAX_DIFF_CHARS comes back MAX_DIFF_CHARS plus
\* the marker long, beginning with the first MAX_DIFF_CHARS characters of the
\* input, with the marker occurring exactly once, at the end; a diff that is
\* not longer comes back unchanged.
GitText(outcome) == IF outcome.raised THEN <<>> ELSE run(outcome.stdout)

C10_MarkerOccursExactlyOnce ==
    fnPc = "collected" =>
        LET text == GitText(fnIn.diff)
        IN  IF Len(text) > MAX_DIFF_CHARS
            THEN /\ Len(fnOut.diff) = MAX_DIFF_CHARS + Len(DiffTruncated)
                 /\ prefix(fnOut.diff, MAX_DIFF_CHARS) = prefix(text, MAX_DIFF_CHARS)
                 /\ occurrences(fnOut.diff, DiffTruncated) = {MAX_DIFF_CHARS + 1}
            ELSE fnOut.diff = text

\* C10 as amended: a diff longer than MAX_DIFF_CHARS comes back MAX_DIFF_CHARS plus
\* the marker long, beginning with the first MAX_DIFF_CHARS characters of the
\* input and ending with the marker, which collect_diff adds exactly once: the
\* marker occurs at the end and, besides that, only where the kept characters
\* of the input already held its text; a diff that is not longer comes back
\* unchanged.
C10_MarkerAppendedOnce ==
    fnPc = "collected" =>
        LET text == GitText(fnIn.diff)
        IN  IF Len(text) > MAX_DIFF_CHARS
            THEN /\ Len(fnOut.diff) = MAX_DIFF_CHARS + Len(DiffTruncated)
                 /\ prefix(fnOut.diff, MAX_DIFF_CHARS) = prefix(text, MAX_DIFF_CHARS)
                 /\ endswith(fnOut.diff, DiffTruncated)
                 /\ occurrences(fnOut.diff, DiffTruncated)
                        = occurrences(prefix(text, MAX_DIFF_CHARS), DiffTruncated)
                              \cup {MAX_DIFF_CHARS + 1}
            ELSE fnOut.diff = text

\* a diff longer than MAX_DIFF_CHARS was truncated
C10_Witness ==
    /\ fnPc = "collected"
    /\ Len(GitText(fnIn.diff)) > MAX_DIFF_CHARS
    /\ fnOut.diff # GitText(fnIn.diff)

\* C9: an override decides the adapter whatever the model name; without one a
\* model name holding "claude" (in any case) selects claude_chat and any other
\* model name openai_chat; one adapter is called per ai_chat, or none when the
\* override names no known provider.
KnownProviders ==
    {<<"claude", "claude_chat">>, <<"anthropic", "claude_chat">>, <<"openai", "openai_chat">>,
     <<"chatgpt", "openai_chat">>, <<"nvidia", "openai_chat">>}

C9_ProviderPrecedence ==
    fnPc = "returned" =>
        LET override == fnIn.AI_PROVIDER
            family == \E i \in 1..Len(fnIn.model) : lower(fnIn.model[i]) = "claude"
        IN  /\ Len(fnOut.invoked) <= 1
            /\ override # "" =>
                /\ \A k \in KnownProviders : lower(override) = k[1] => fnOut.invoked = <<k[2]>>
                /\ (\A k \in KnownProviders : lower(override) # k[1]) => fnOut.invoked = <<>>
            /\ (override = "" /\ family) => fnOut.invoked = <<"claude_chat">>
            /\ (override = "" /\ ~family) => fnOut.invoked = <<"openai_chat">>

\* ai_chat was called with an override for the generic adapter and a model name
\* of the first-party family, and called the generic adapter
C9_Witness ==
    /\ fnPc = "returned"
    /\ fnIn.AI_PROVIDER = "OpenAI"
    /\ contains(fnIn.model, <<"claude">>)
    /\ fnOut.invoked = <<"openai_chat">>

\* C11: a changed-file list of more than MAX_FILES entries comes back as its
\* first MAX_FILES entries, in order, followed by one truncation marker line;
\* a list of at most MAX_FILES entries comes back whole with nothing appended.
C11_FileListTruncation ==
    fnPc = "collected" =>
        LET names == GitText(fnIn.names)
            entries == splitlines(names)
            kept == splitlines(fnOut.files)
        IN  IF Len(entries) > MAX_FILES
            THEN /\ Len(kept) = MAX_FILES + 1
                 /\ \A i \in 1..MAX_FILES : kept[i] = entries[i]
                 /\ kept[MAX_FILES + 1] = <<"[files list truncated]">>
                 /\ fnOut.files = join(prefix(entries, MAX_FILES)) \o FilesTruncated
            ELSE /\ kept = entries
                 /\ fnOut.files = names

\* a list of more than MAX_FILES entries was cut
C11_Witness ==
    /\ fnPc = "collected"
    /\ Len(splitlines(GitText(fnIn.names))) > MAX_FILES
    /\ endswith(fnOut.files, FilesTruncated)

\* the run collected its diff (a create run whose git push raised never did)
\* and found it empty
NoDiff(p) ==
    /\ pc[p] = "done"
    /\ args[p].command \in {"create", "review"}
    /\ escaped[p] # "run"
    /\ strip(diff[p]) = Empty

NoDiffDescription == <<"Summary", "\n", "- No diff detected between selected branches.">>

\* C12: a run of either flow that finds no diff makes no AI call and ends with
\* status 0, whatever the service context and the preview flag; create carries
\* the fixed fallback description and review prints the no-diff skip message.
C12_NoDiffExitsZero ==
    \A p \in Procs :
        NoDiff(p) =>
            /\ aiCalls[p] = 0
            /\ exit[p] = <<0>>
            /\ args[p].command = "create" => description[p] = NoDiffDescription
            /\ args[p].command = "review" => "No diff found; skipping." \in out[p]

\* one of the four service-context values of the run's namespace is empty
ContextMissing(a) ==
    a.org_url = Empty \/ a.project = Empty \/ a.repo_id = Empty \/ a.token = Empty

\* C13: a review run without preview whose diff is not empty and whose AI call
\* returned text, with no PR id (argument or pipeline variable) or with one
\* of the four context values missing, prints the generated text, reports
\* the missing context, sends no request to the pull-request service and
\* ends with status 0.
C13_ReviewWithoutContextOnlyPrints ==
    \A p \in Procs :
        (/\ pc[p] = "done"
         /\ args[p].command = "review"
         /\ ~args[p].dry_run
         /\ result[p] # None
         /\ (pr_id[p] = Empty \/ ContextMissing(args[p])))
        => /\ "Generated review content:" \in out[p]
           /\ "Missing Azure DevOps context or token; printing output only." \in out[p]
           /\ sent[p] = <<>>
           /\ exit[p] = <<0>>

\* a review run that had a PR id and text from the AI, but no token, ended
C13_Witness ==
    \E p \in Procs :
        /\ pc[p] = "done"
        /\ args[p].command = "review"
        /\ ~args[p].dry_run
        /\ result[p] = ReviewReply
        /\ pr_id[p] # Empty
        /\ args[p].org_url # Empty /\ args[p].project # Empty /\ args[p].repo_id # Empty
        /\ args[p].token = Empty
        /\ exit[p] = <<0>>

GenerationFailedDescription == <<"Summary", "\n", "- AI description generation failed.">>

\* a create run with a diff whose backend has no credential, or whose provider
\* name is not a known one, is past its AI call
CreateWithoutAi(p) ==
    /\ pc[p] \in {"create_dispatch", "create_pr", "done"}
    /\ args[p].command = "create"
    /\ strip(diff[p]) # Empty
    /\ ~ai[p].credential

\* C15: a create run with a diff whose AI backend reports absence, for want of
\* a credential or of a known provider, is not halted: it takes the fixed
\* generation-failed description and goes on as with a generated one, to the
\* preview of the create-PR request, to the request itself, or to the stop
\* for want of service context.
C15_AbsentAiFallsBack ==
    \A p \in Procs :
        CreateWithoutAi(p) =>
            /\ description[p] = GenerationFailedDescription
            /\ aiCalls[p] = 1
            /\ escaped[p] # "ai_chat"
            /\ pc[p] = "done" =>
                LET a == args[p]
                    request == create_pr(a.org_url, a.project, a.repo_id, a.source_branch,
                                         a.target_branch, a.token, create_title(a),
                                         GenerationFailedDescription)
                IN  /\ a.dry_run =>
                        /\ printed[p] = <<preview_create_pr(a, create_title(a),
                                                            GenerationFailedDescription)>>
                        /\ sent[p] = <<>>
                        /\ exit[p] = <<0>>
                    /\ (~a.dry_run /\ ~ContextMissing(a)) =>
                        /\ Len(sent[p]) = 1
                        /\ sent[p][1].request = request
                    /\ (~a.dry_run /\ ContextMissing(a)) => sent[p] = <<>> /\ exit[p] = <<1>>

\* a create run whose generic backend had no key sent the create-PR request
\* with the generation-failed description
C15_Witness ==
    \E p \in Procs :
        /\ pc[p] = "done"
        /\ CreateWithoutAi(p)
        /\ ai[p].adapters = <<"openai_chat">>
        /\ ~args[p].dry_run
        /\ Len(sent[p]) = 1
        /\ sent[p][1].request.op = "create_pr"
        /\ description[p] = GenerationFailedDescription
        /\ exit[p] = <<0>>

\* the text after the last "/_git/" of a URL that holds one
AfterLastMarker(url) ==
    LET at == occurrences(url, GitMarker)
        i == CHOOSE i \in at : \A j \in at : j <= i
    IN  SubSeq(url, i + Len(GitMarker), Len(url))

\* the part of a path after its last "/", the whole of a path with none
FinalSegment(path) ==
    CHOOSE seg \in {SubSeq(path, k + 1, Len(path)) : k \in 0..Len(path)} :
        /\ \A i \in 1..Len(seg) : seg[i] # "/"
        /\ Len(seg) = Len(path) \/ path[Len(path) - Len(seg)] = "/"

\* a name without one trailing ".git"
WithoutDotGit(name) ==
    IF name # <<>> /\ name[Len(name)] = ".git" THEN SubSeq(name, 1, Len(name) - 1) ELSE name

\* the URL ends in v3/<org>/<project>/<repo>, each of the three not empty and
\* without a "/"; with onHost, the v3 follows ssh.dev.azure.com and a run of
\* ":" and "/"
SshV3Shaped(url, onHost) ==
    \E v \in 1..Len(url) : \E a \in (v + 3)..Len(url) : \E b \in (a + 2)..(Len(url) - 1) :
        /\ url[v] = "v3" /\ url[v + 1] = "/" /\ url[a] = "/" /\ url[b] = "/"
        /\ \A k \in (v + 2)..Len(url) : url[k] = "/" => k \in {a, b}
        /\ onHost =>
            \E h \in 1..(v - 2) :
                /\ url[h] = "ssh.dev.azure.com"
                /\ \A k \in (h + 1)..(v - 1) : url[k] \in {":", "/"}

\* C16 as stated: the resolver returns, for a URL holding "/_git/", the text
\* after the last "/_git/"; for a URL ending in v3/<org>/<project>/<repo>,
\* <repo> without a trailing ".git"; for any other URL the final path segment
\* without a trailing ".git"; and the empty string for an empty URL.
C16_ResolverReturnsName ==
    fnPc = "resolved" =>
        LET url == strip(fnIn)
        IN  IF url = <<>> THEN fnOut = <<>>
            ELSE IF contains(url, GitMarker) THEN fnOut = AfterLastMarker(url)
            ELSE IF SshV3Shaped(url, FALSE) THEN fnOut = WithoutDotGit(FinalSegment(url))
            ELSE fnOut = WithoutDotGit(FinalSegment(url))

\* text without the "/" at its two ends
WithoutOuterSlashes(text) ==
    CHOOSE t \in UNION {{SubSeq(text, i, j) : j \in (i - 1)..Len(text)} :
                            i \in 1..(Len(text) + 1)} :
        /\ \E i \in 1..(Len(text) + 1 - Len(t)) :
            /\ t = SubSeq(text, i, i + Len(t) - 1)
            /\ \A k \in 1..(i - 1) : text[k] = "/"
            /\ \A k \in (i + Len(t))..Len(text) : text[k] = "/"
        /\ t # <<>> => t[1] # "/" /\ t[Len(t)] # "/"

\* percent-escapes decoded
Decoded(text) == unquote(text)

\* the path of a URL of the third dialect: "\" read as "/", no "/" at the end
PathOf(url) ==
    LET slashed == [i \in 1..Len(url) |-> IF url[i] = "\\" THEN "/" ELSE url[i]]
    IN  CHOOSE path \in {SubSeq(slashed, 1, n) : n \in 0..Len(slashed)} :
            /\ \A k \in (Len(path) + 1)..Len(slashed) : slashed[k] = "/"
            /\ path # <<>> => path[Len(path)] # "/"

\* the part of a segment after its last ":", for the user@host:repo form
AfterLastColon(seg) ==
    CHOOSE part \in {SubSeq(seg, k + 1, Len(seg)) : k \in 0..Len(seg)} :
        /\ \A i \in 1..Len(part) : part[i] # ":"
        /\ Len(part) = Len(seg) \/ seg[Len(seg) - Len(part)] = ":"

\* C16 as amended: the resolver takes the URL without surrounding whitespace
\* and returns, with percent-escapes decoded: for a URL holding "/_git/", the
\* text after the last "/_git/" without the "/" at its ends; for a URL where
\* ssh.dev.azure.com and a run of ":" and "/" are followed by
\* v3/<org>/<project>/<repo> at the end, <repo> without a trailing ".git";
\* for any other URL the final segment of its path ("\" read as "/", "/" at
\* the end dropped), cut to what follows its last ":" when the segment holds a
\* ":" and the path an "@", without a trailing ".git"; and the empty string
\* for an empty URL.
C16_ResolverReturnsDecodedName ==
    fnPc = "resolved" =>
        LET url == strip(fnIn)
        IN  IF url = <<>> THEN fnOut = <<>>
            ELSE IF contains(url, GitMarker)
            THEN fnOut = Decoded(WithoutOuterSlashes(AfterLastMarker(url)))
            ELSE IF SshV3Shaped(url, TRUE)
            THEN fnOut = Decoded(WithoutDotGit(FinalSegment(url)))
            ELSE LET path == PathOf(url)
                     seg == FinalSegment(path)
                     scp == (\E i \in 1..Len(seg) : seg[i] = ":")
                                /\ (\E i \in 1..Len(path) : path[i] = "@")
                 IN  fnOut = Decoded(WithoutDotGit(IF scp THEN AfterLastColon(seg) ELSE seg))

\* the resolver took an SSH v3 URL whose repository name carries ".git" and a
\* percent-escape, and returned the name decoded and without ".git"
C16_Witness ==
    /\ fnPc = "resolved"
    /\ ~contains(strip(fnIn), GitMarker)
    /\ SshV3Shaped(strip(fnIn), TRUE)
    /\ endswith(strip(fnIn), <<"r", "%20", ".git">>)
    /\ fnOut = <<"r", " ">>

\* C17: from the start of a run to its end no step writes a field of the
\* configuration the run started with (model, organization URL, project,
\* repository id, token, flags; the backend and its credential), also in a
\* create run that infers its repository id from the remote URL.
C17_ConfigurationNeverWritten ==
    [][\A p \in Procs :
          (pc[p] # "idle" /\ pc'[p] # "idle") => (args'[p] = args[p] /\ ai'[p] = ai[p])]_vars

\* C18: with two review runs that update the description of one PR running
\* at once, their reads and PATCHes of the description in any order, the stored
\* description never holds more than one AI-suggested section.
C18_AtMostOneAiSection == Cardinality(occurrences(prDescription, Marker)) <= 1

\* both runs read the description before either PATCH, both PATCHes were
\* applied, and the stored description holds one section
C18_Witness ==
    /\ patchesApplied = 2
    /\ \A p \in Procs :
        /\ pc[p] = "done"
        /\ ~contains(current[p], Marker)
        /\ SentOf(p, "update_pr_description") # {}
    /\ Cardinality(occurrences(prDescription, Marker)) = 1

====
